---- MODULE Spec2Model ----
(***************************************************************************)
(* The hit counter service of src/main.rs: GET /hit/<url> borrows a        *)
(* connection from the sqlx pool, runs the upsert statement, then the      *)
(* read-back statement, and answers with the count it read.                *)
(*                                                                         *)
(* A request is one run of route::hit.  Its await points are the steps of  *)
(* the model: pool acquire (line 109), the upsert (lines 133-140) and the  *)
(* read-back (lines 146-149).  The hyper server may drop the handler       *)
(* future at any await point (the client went away): Abort.                *)
(***************************************************************************)
EXTENDS Integers, Sequences, FiniteSets, TLC

\* ---- bounds ----
NumReq == 3
MaxPoolSize == 2
MaxPre == 1
\* a stored count next to a decimal carry, so that counts of two digits occur
PreCarry == 9

Reqs == 1..NumReq
\* the path segments requests may carry (Path<String>, line 104)
Targets == {"foo", "bar"}

\* result of fetch_one when no row matches (sqlx::Error::RowNotFound)
RowNotFound == -1

VARIABLES
  server,    \* main: "starting" | "serving" | "failed"
  hits,      \* the hits table: sequence of rows [target, count]
  hits0,     \* the hits table as it was when the process started
  capacity,  \* the most connections db_pool hands out at a time
  borrowed,  \* connections of db_pool currently handed out
  pc,        \* position of each request in route::hit
  route,     \* the route the router matched: "/", "/hit", "/hit/:url"
  url,       \* the request's path segment
  ret,       \* `hits`, the value increase_hit_count returned (line 111)
  body,      \* response body (line 114)
  status,    \* HTTP status written to the client, 0 = no response written
  err,       \* the call whose Err was unwrapped: "acquire", "upsert", "select"
  applied,   \* number of upsert statements of this request the store executed
  wrote,     \* the count its upsert left in the row
  inserted,  \* whether its upsert applied as the insert
  pred       \* the requests that had ended when this one arrived

vars == <<server, hits, hits0, capacity, borrowed, pc, route, url, ret, body,
          status, err, applied, wrote, inserted, pred>>

\* ---- the hits table ----
RowsOf(t, k) == {i \in 1..Len(t) : t[i].target = k}

HasRow(t, k) == RowsOf(t, k) # {}

FirstRow(t, k) == CHOOSE i \in RowsOf(t, k) : \A j \in RowsOf(t, k) : i <= j

\* the stored count of k, a missing row counting as 0
CountOf(t, k) == IF HasRow(t, k) THEN t[FirstRow(t, k)].count ELSE 0

\* INSERT OR IGNORE: the conflicting statement leaves the row as it is
UpsertHit_Ignore(t, k) ==
  IF HasRow(t, k) THEN t ELSE Append(t, [target |-> k, count |-> 1])

\* INSERT OR REPLACE: the conflicting statement stores a fresh row
UpsertHit_Replace(t, k) ==
  IF HasRow(t, k)
  THEN [i \in 1..Len(t) |->
          IF t[i].target = k THEN [t[i] EXCEPT !.count = 1] ELSE t[i]]
  ELSE Append(t, [target |-> k, count |-> 1])

\* VALUES(?, 0): a new row starts at 0
UpsertHit_FromZero(t, k) ==
  IF HasRow(t, k)
  THEN [i \in 1..Len(t) |->
          IF t[i].target = k THEN [t[i] EXCEPT !.count = @ + 1] ELSE t[i]]
  ELSE Append(t, [target |-> k, count |-> 0])

\* DO UPDATE applied to the table: every row is incremented
UpsertHit_AllRows(t, k) ==
  IF HasRow(t, k)
  THEN [i \in 1..Len(t) |-> [t[i] EXCEPT !.count = @ + 1]]
  ELSE Append(t, [target |-> k, count |-> 1])

\* the ON CONFLICT clause left out, on a table without the unique index
UpsertHit_PlainInsert(t, k) == Append(t, [target |-> k, count |-> 1])

\* INSERT INTO hits(target, count) VALUES(?, 1)
\* ON CONFLICT(target) DO UPDATE SET count=count + 1
UpsertHit(t, k) ==
  IF HasRow(t, k)
  THEN [i \in 1..Len(t) |->
          IF t[i].target = k THEN [t[i] EXCEPT !.count = @ + 1] ELSE t[i]]
  ELSE Append(t, [target |-> k, count |-> 1])

\* SELECT count FROM hits, the WHERE clause left out
FetchOne_NoWhere(t, k) == IF Len(t) > 0 THEN t[1].count ELSE RowNotFound

\* SELECT count FROM hits WHERE target = ?   with fetch_one
FetchOne(t, k) == IF HasRow(t, k) THEN t[FirstRow(t, k)].count ELSE RowNotFound

\* format!("{hits}") for an i64: decimal digits, most significant first
Digit(d) == <<"0", "1", "2", "3", "4", "5", "6", "7", "8", "9">>[d + 1]

RECURSIVE FormatNat(_)
FormatNat(n) == IF n < 10 THEN <<Digit(n)>>
                ELSE Append(FormatNat(n \div 10), Digit(n % 10))

FormatI64(n) == IF n < 0 THEN <<"-">> \o FormatNat(0 - n) ELSE FormatNat(n)

\* the integer a client reads from a plain-text body of decimal digits
DigitValue(c) ==
  CASE c = "0" -> 0 [] c = "1" -> 1 [] c = "2" -> 2 [] c = "3" -> 3
    [] c = "4" -> 4 [] c = "5" -> 5 [] c = "6" -> 6 [] c = "7" -> 7
    [] c = "8" -> 8 [] c = "9" -> 9

RECURSIVE ParseNat(_)
ParseNat(s) == IF Len(s) = 0 THEN 0
               ELSE 10 * ParseNat(SubSeq(s, 1, Len(s) - 1))
                    + DigitValue(s[Len(s)])

ParseI64(s) == IF Len(s) > 0 /\ s[1] = "-"
               THEN 0 - ParseNat(SubSeq(s, 2, Len(s)))
               ELSE ParseNat(s)

\* ---- initial state ----
\* the pool is bounded (SqlitePoolOptions::new(), line 39); the model covers
\* every capacity from 1 to MaxPoolSize
\* the database file outlives the process: the table may already hold rows,
\* one per target (the unique index ON CONFLICT(target) relies on)
InitTables ==
  LET Row == [target : Targets, count : (1..MaxPre) \cup {PreCarry}]
  IN {t \in UNION {[1..n -> Row] : n \in 0..Cardinality(Targets)} :
        \A i, j \in 1..Len(t) : t[i].target = t[j].target => i = j}

Init ==
  /\ server = "starting"
  /\ hits \in InitTables
  /\ hits0 = hits
  /\ capacity \in 1..MaxPoolSize
  /\ borrowed = 0
  /\ pc = [r \in Reqs |-> "idle"]
  /\ route = [r \in Reqs |-> ""]
  /\ url = [r \in Reqs |-> ""]
  /\ ret = [r \in Reqs |-> 0]
  /\ body = [r \in Reqs |-> <<>>]
  /\ status = [r \in Reqs |-> 0]
  /\ err = [r \in Reqs |-> "none"]
  /\ applied = [r \in Reqs |-> 0]
  /\ wrote = [r \in Reqs |-> 0]
  /\ inserted = [r \in Reqs |-> FALSE]
  /\ pred = [r \in Reqs |-> {}]

\* the store error the spec names for a failed call
StoreError(e) ==
  IF e = "acquire" THEN "ConnectionUnavailable" ELSE "QueryFailed"

Ended(r) == pc[r] \in {"done", "panicked", "aborted", "helped"}

\* ---- main ----
\* lines 39-42: connect succeeded, lines 46-73: state built, server bound
Connect ==
  /\ server = "starting"
  /\ server' = "serving"
  /\ UNCHANGED <<hits, hits0, capacity, borrowed, pc, route, url, ret, body,
                 status, err, applied, wrote, inserted, pred>>

\* line 42: expect("failed to connect to database") panics, main never serves
ConnectFail ==
  /\ server = "starting"
  /\ server' = "failed"
  /\ UNCHANGED <<hits, hits0, capacity, borrowed, pc, route, url, ret, body,
                 status, err, applied, wrote, inserted, pred>>

\* ---- the help routes ----
\* lines 83 and 120; the literal's backquotes are written as apostrophes
HelpText == "Navigate to '/hit/foo' to increment the hit count for 'foo'"

\* a help handler that takes a connection from the pool
Root_Acquire(r) ==
  /\ server = "serving"
  /\ pc[r] = "idle"
  /\ \A q \in Reqs : q < r => pc[q] # "idle"
  /\ borrowed < capacity
  /\ borrowed' = borrowed + 1
  /\ pc' = [pc EXCEPT ![r] = "helped"]
  /\ route' = [route EXCEPT ![r] = "/"]
  /\ body' = [body EXCEPT ![r] = <<HelpText>>]
  /\ status' = [status EXCEPT ![r] = 200]
  /\ pred' = [pred EXCEPT ![r] = {q \in Reqs : Ended(q)}]
  /\ UNCHANGED <<server, hits, hits0, capacity, url, ret, err, applied,
                 wrote, inserted>>

\* lines 57 and 119-121: GET / answers with the static text
Root(r) ==
  /\ server = "serving"
  /\ pc[r] = "idle"
  /\ \A q \in Reqs : q < r => pc[q] # "idle"
  /\ pc' = [pc EXCEPT ![r] = "helped"]
  /\ route' = [route EXCEPT ![r] = "/"]
  /\ body' = [body EXCEPT ![r] = <<HelpText>>]
  /\ status' = [status EXCEPT ![r] = 200]
  /\ pred' = [pred EXCEPT ![r] = {q \in Reqs : Ended(q)}]
  /\ UNCHANGED <<server, hits, hits0, capacity, borrowed, url, ret, err,
                 applied, wrote, inserted>>

\* lines 58 and 82-84: GET /hit answers with the static text
RouteRoot(r) ==
  /\ server = "serving"
  /\ pc[r] = "idle"
  /\ \A q \in Reqs : q < r => pc[q] # "idle"
  /\ pc' = [pc EXCEPT ![r] = "helped"]
  /\ route' = [route EXCEPT ![r] = "/hit"]
  /\ body' = [body EXCEPT ![r] = <<HelpText>>]
  /\ status' = [status EXCEPT ![r] = 200]
  /\ pred' = [pred EXCEPT ![r] = {q \in Reqs : Ended(q)}]
  /\ UNCHANGED <<server, hits, hits0, capacity, borrowed, url, ret, err,
                 applied, wrote, inserted>>

\* ---- route::hit ----
\* the server accepting requests before the pool is connected
Arrive_Early(r, u) ==
  /\ pc[r] = "idle"
  /\ \A q \in Reqs : q < r => pc[q] # "idle"
  /\ pc' = [pc EXCEPT ![r] = "acquire"]
  /\ route' = [route EXCEPT ![r] = "/hit/:url"]
  /\ url' = [url EXCEPT ![r] = u]
  /\ pred' = [pred EXCEPT ![r] = {q \in Reqs : Ended(q)}]
  /\ UNCHANGED <<server, hits, hits0, capacity, borrowed, ret, body, status,
                 err, applied, wrote, inserted>>

\* lines 103-107: the router calls hit with the path segment; requests are
\* numbered in the order they arrive
Arrive(r, u) ==
  /\ server = "serving"
  /\ pc[r] = "idle"
  /\ \A q \in Reqs : q < r => pc[q] # "idle"
  /\ pc' = [pc EXCEPT ![r] = "acquire"]
  /\ route' = [route EXCEPT ![r] = "/hit/:url"]
  /\ url' = [url EXCEPT ![r] = u]
  /\ pred' = [pred EXCEPT ![r] = {q \in Reqs : Ended(q)}]
  /\ UNCHANGED <<server, hits, hits0, capacity, borrowed, ret, body, status,
                 err, applied, wrote, inserted>>

\* acquire() that opens a connection past the pool's limit
Acquire_NoLimit(r) ==
  /\ pc[r] = "acquire"
  /\ borrowed' = borrowed + 1
  /\ pc' = [pc EXCEPT ![r] = "upsert"]
  /\ UNCHANGED <<server, hits, hits0, capacity, route, url, ret, body,
                 status, err, applied, wrote, inserted, pred>>

\* line 109: acquire() hands out a connection when the pool has one left
Acquire(r) ==
  /\ pc[r] = "acquire"
  /\ borrowed < capacity
  /\ borrowed' = borrowed + 1
  /\ pc' = [pc EXCEPT ![r] = "upsert"]
  /\ UNCHANGED <<server, hits, hits0, capacity, route, url, ret, body,
                 status, err, applied, wrote, inserted, pred>>

\* the panic of the handler taking the whole process down
AcquireFail_Crash(r) ==
  /\ pc[r] = "acquire"
  /\ pc' = [pc EXCEPT ![r] = "panicked"]
  /\ err' = [err EXCEPT ![r] = "acquire"]
  /\ server' = "failed"
  /\ UNCHANGED <<hits, hits0, capacity, borrowed, route, url, ret, body,
                 status, applied, wrote, inserted, pred>>

\* line 109: acquire() returns Err (timed out waiting, or the database cannot
\* be opened); unwrap panics and hyper closes the connection unanswered
AcquireFail(r) ==
  /\ pc[r] = "acquire"
  /\ pc' = [pc EXCEPT ![r] = "panicked"]
  /\ err' = [err EXCEPT ![r] = "acquire"]
  /\ UNCHANGED <<server, hits, hits0, capacity, borrowed, route, url, ret,
                 body, status, applied, wrote, inserted, pred>>

\* the upsert statement sent again after the first execution
Upsert_Retry(r) ==
  /\ pc[r] = "upsert"
  /\ hits' = UpsertHit(UpsertHit(hits, url[r]), url[r])
  /\ applied' = [applied EXCEPT ![r] = @ + 2]
  /\ wrote' = [wrote EXCEPT ![r] = CountOf(hits', url[r])]
  /\ inserted' = [inserted EXCEPT ![r] = ~HasRow(hits, url[r])]
  /\ pc' = [pc EXCEPT ![r] = "select"]
  /\ UNCHANGED <<server, hits0, capacity, borrowed, route, url, ret, body,
                 status, err, pred>>

\* lines 133-140: the store executes the upsert statement
Upsert(r) ==
  /\ pc[r] = "upsert"
  /\ hits' = UpsertHit(hits, url[r])
  /\ applied' = [applied EXCEPT ![r] = @ + 1]
  /\ wrote' = [wrote EXCEPT ![r] = CountOf(hits', url[r])]
  /\ inserted' = [inserted EXCEPT ![r] = ~HasRow(hits, url[r])]
  /\ pc' = [pc EXCEPT ![r] = "select"]
  /\ UNCHANGED <<server, hits0, capacity, borrowed, route, url, ret, body,
                 status, err, pred>>

\* line 140: the statement is rejected, `?` returns the error, the connection
\* is dropped with the function's frame; line 111 unwrap panics
UpsertFail(r) ==
  /\ pc[r] = "upsert"
  /\ borrowed' = borrowed - 1
  /\ pc' = [pc EXCEPT ![r] = "panicked"]
  /\ err' = [err EXCEPT ![r] = "upsert"]
  /\ UNCHANGED <<server, hits, hits0, capacity, route, url, ret, body,
                 status, applied, wrote, inserted, pred>>

\* the handler answering with the count it remembers from its own upsert
Select_Cached(r) ==
  /\ pc[r] = "select"
  /\ FetchOne(hits, url[r]) # RowNotFound
  /\ ret' = [ret EXCEPT ![r] = wrote[r]]
  /\ body' = [body EXCEPT ![r] = FormatI64(ret'[r])]
  /\ status' = [status EXCEPT ![r] = 200]
  /\ borrowed' = borrowed - 1
  /\ pc' = [pc EXCEPT ![r] = "done"]
  /\ UNCHANGED <<server, hits, hits0, capacity, route, url, err, applied,
                 wrote, inserted, pred>>

\* the handler keeping its connection after increase_hit_count returned
Select_KeepConn(r) ==
  /\ pc[r] = "select"
  /\ FetchOne(hits, url[r]) # RowNotFound
  /\ ret' = [ret EXCEPT ![r] = FetchOne(hits, url[r])]
  /\ body' = [body EXCEPT ![r] = FormatI64(ret'[r])]
  /\ status' = [status EXCEPT ![r] = 200]
  /\ pc' = [pc EXCEPT ![r] = "done"]
  /\ UNCHANGED <<server, hits, hits0, capacity, borrowed, route, url, err,
                 applied, wrote, inserted, pred>>

\* lines 145-150 and 111-114: fetch_one finds the row, increase_hit_count
\* returns Ok(count) dropping the connection, hit formats the count
Select(r) ==
  /\ pc[r] = "select"
  /\ FetchOne(hits, url[r]) # RowNotFound
  /\ ret' = [ret EXCEPT ![r] = FetchOne(hits, url[r])]
  /\ body' = [body EXCEPT ![r] = FormatI64(ret'[r])]
  /\ status' = [status EXCEPT ![r] = 200]
  /\ borrowed' = borrowed - 1
  /\ pc' = [pc EXCEPT ![r] = "done"]
  /\ UNCHANGED <<server, hits, hits0, capacity, route, url, err, applied,
                 wrote, inserted, pred>>

\* the error path of the read-back keeping the connection
SelectFail_Leak(r) ==
  /\ pc[r] = "select"
  /\ pc' = [pc EXCEPT ![r] = "panicked"]
  /\ err' = [err EXCEPT ![r] = "select"]
  /\ UNCHANGED <<server, hits, hits0, capacity, borrowed, route, url, ret,
                 body, status, applied, wrote, inserted, pred>>

\* line 148: fetch_one returns Err (no row, or the statement failed), `?`
\* returns it dropping the connection; line 111 unwrap panics
SelectFail(r) ==
  /\ pc[r] = "select"
  /\ borrowed' = borrowed - 1
  /\ pc' = [pc EXCEPT ![r] = "panicked"]
  /\ err' = [err EXCEPT ![r] = "select"]
  /\ UNCHANGED <<server, hits, hits0, capacity, route, url, ret, body,
                 status, applied, wrote, inserted, pred>>

\* both statements inside one transaction: dropping it rolls the upsert back
Abort_Rollback(r) ==
  /\ pc[r] \in {"acquire", "upsert", "select"}
  /\ borrowed' = IF pc[r] = "acquire" THEN borrowed ELSE borrowed - 1
  /\ hits' = IF pc[r] = "select"
             THEN [i \in 1..Len(hits) |->
                     IF hits[i].target = url[r]
                     THEN [hits[i] EXCEPT !.count = @ - 1] ELSE hits[i]]
             ELSE hits
  /\ pc' = [pc EXCEPT ![r] = "aborted"]
  /\ UNCHANGED <<server, hits0, capacity, route, url, ret, body, status, err,
                 applied, wrote, inserted, pred>>

\* the handler future is dropped at an await point (lines 109, 140, 148);
\* a connection it owns is dropped with it and goes back to the pool
Abort(r) ==
  /\ pc[r] \in {"acquire", "upsert", "select"}
  /\ borrowed' = IF pc[r] = "acquire" THEN borrowed ELSE borrowed - 1
  /\ pc' = [pc EXCEPT ![r] = "aborted"]
  /\ UNCHANGED <<server, hits, hits0, capacity, route, url, ret, body,
                 status, err, applied, wrote, inserted, pred>>

Next ==
  \/ Connect
  \/ ConnectFail
  \/ \E r \in Reqs : Root(r)
  \/ \E r \in Reqs : RouteRoot(r)
  \/ \E r \in Reqs, u \in Targets : Arrive(r, u)
  \/ \E r \in Reqs : Acquire(r)
  \/ \E r \in Reqs : AcquireFail(r)
  \/ \E r \in Reqs : Upsert(r)
  \/ \E r \in Reqs : UpsertFail(r)
  \/ \E r \in Reqs : Select(r)
  \/ \E r \in Reqs : SelectFail(r)
  \/ \E r \in Reqs : Abort(r)

Spec == Init /\ [][Next]_vars

\* ---- a backend that answers, fair scheduling ----
\* no call returns Err and no handler future is dropped
NextLive ==
  \/ Connect
  \/ ConnectFail
  \/ \E r \in Reqs : Root(r)
  \/ \E r \in Reqs : RouteRoot(r)
  \/ \E r \in Reqs, u \in Targets : Arrive(r, u)
  \/ \E r \in Reqs : Acquire(r)
  \/ \E r \in Reqs : Upsert(r)
  \/ \E r \in Reqs : Select(r)

\* tokio polls every task that can make progress: a handler whose await
\* can complete is eventually resumed
Fairness ==
  \A r \in Reqs :
    /\ WF_vars(Acquire(r))
    /\ WF_vars(Upsert(r))
    /\ WF_vars(Select(r))

SpecLive == Init /\ [][NextLive]_vars /\ Fairness

\* ---- properties ----
\* the calls on k that have arrived
CallsOn(k) == {r \in Reqs : pc[r] # "idle" /\ url[r] = k}

\* r and q did not overlap: one had ended when the other arrived
Ordered(r, q) == r \in pred[q] \/ q \in pred[r]

\* C1: no lost updates.  Whenever every call that arrived for k has finished
\* successfully, the stored count of k is its count at process start (0 for a
\* missing row) plus the number of those calls, whatever the interleaving.
C1_NoLostUpdates ==
  \A k \in Targets :
    (\A r \in CallsOn(k) : pc[r] = "done")
      => CountOf(hits, k) = CountOf(hits0, k) + Cardinality(CallsOn(k))

\* two overlapping calls on a key that already had a row both succeeded
C1_Witness ==
  \E r, q \in Reqs :
    /\ r # q /\ url[r] = url[q] /\ pc[r] = "done" /\ pc[q] = "done"
    /\ ~Ordered(r, q)
    /\ HasRow(hits0, url[r])
    /\ \A x \in CallsOn(url[r]) : pc[x] = "done"

\* C2: on a key with no row at start, calls that all succeeded and never
\* overlapped one another return 1, 2, ..., n in the order they were issued:
\* each returns one more than the number of calls on the key before it.
C2_Sequential ==
  \A k \in Targets :
    ( /\ ~HasRow(hits0, k)
      /\ \A r \in CallsOn(k) : pc[r] = "done"
      /\ \A r, q \in CallsOn(k) : r # q => Ordered(r, q) )
      => \A r \in CallsOn(k) :
           ret[r] = 1 + Cardinality(pred[r] \cap CallsOn(k))

\* foo, bar, foo one after another on a fresh table returned 1, 1, 2
C2_Witness ==
  /\ hits0 = <<>>
  /\ \A r \in Reqs : pc[r] = "done"
  /\ url[1] = "foo" /\ url[2] = "bar" /\ url[3] = "foo"
  /\ 1 \in pred[2] /\ 2 \in pred[3]
  /\ ret[1] = 1 /\ ret[2] = 1 /\ ret[3] = 2

\* C3 as stated: the call whose upsert inserted the row returns 1
C3_Original ==
  \A r \in Reqs : (pc[r] = "done" /\ inserted[r]) => ret[r] = 1

\* C3 amended: the call whose upsert inserted the row for a key returns 1
\* when no other call on that key overlaps it.
C3_FirstReturnsOne ==
  \A r \in Reqs :
    ( /\ pc[r] = "done" /\ inserted[r]
      /\ \A q \in CallsOn(url[r]) : q # r => Ordered(r, q) )
      => ret[r] = 1

\* an inserting call returned 1 and a later call on the same key followed
C3_Witness ==
  \E r, q \in Reqs :
    /\ pc[r] = "done" /\ inserted[r] /\ ret[r] = 1
    /\ url[q] = url[r] /\ r \in pred[q] /\ applied[q] = 1

\* C4: a successful call returns a value that is at least 1 and at least the
\* count its own upsert wrote, and a call that has run its upsert always
\* finds its row at the read-back.
C4_ReadBack ==
  /\ \A r \in Reqs : pc[r] = "done" => (ret[r] >= 1 /\ ret[r] >= wrote[r])
  /\ \A r \in Reqs : pc[r] = "select" => FetchOne(hits, url[r]) # RowNotFound

\* a call returned more than it wrote: another upsert came in between
C4_Witness ==
  \E r \in Reqs : pc[r] = "done" /\ wrote[r] >= 1 /\ ret[r] > wrote[r]

\* C5: no step of a call on one key changes the stored count or the
\* existence of the row of any other key.
C5_OtherKeysUntouched ==
  [][\A r \in Reqs :
       pc'[r] # pc[r] =>
         \A k \in Targets \ {url'[r]} :
           /\ CountOf(hits', k) = CountOf(hits, k)
           /\ HasRow(hits', k) = HasRow(hits, k)]_vars

\* calls on two keys that both had rows are in flight together, one has
\* run its upsert
C5_Witness ==
  \E r, q \in Reqs :
    /\ url[r] = "foo" /\ url[q] = "bar"
    /\ pc[r] = "select" /\ pc[q] \in {"upsert", "select"}
    /\ HasRow(hits0, "foo") /\ HasRow(hits0, "bar")

\* the calls on k whose upsert the store has executed
UpsertsOn(k) == {r \in Reqs : url[r] = k /\ applied[r] >= 1}

\* C6: a request waiting in acquire while every pooled connection is handed
\* out gets no connection: unless it is aborted, it can only end with the
\* acquire error (ConnectionUnavailable), in a step that leaves the hits
\* table as it is; and a request that ended that way never ran its upsert.
C6_PoolExhausted ==
  /\ [][\A r \in Reqs :
          (pc[r] = "acquire" /\ borrowed >= capacity
             /\ pc'[r] # pc[r] /\ pc'[r] # "aborted")
          => /\ pc'[r] = "panicked"
             /\ StoreError(err'[r]) = "ConnectionUnavailable"
             /\ hits' = hits]_vars
  /\ [](\A r \in Reqs :
          (pc[r] = "panicked" /\ err[r] = "acquire")
          => applied[r] = 0 /\ wrote[r] = 0 /\ ~inserted[r])

\* all connections are held by the other requests and one more request has
\* ended with the acquire error
C6_Witness ==
  \E r \in Reqs :
    /\ pc[r] = "panicked" /\ StoreError(err[r]) = "ConnectionUnavailable"
    /\ borrowed = capacity
    /\ \A q \in Reqs \ {r} : pc[q] \in {"upsert", "select"} /\ q < r
    /\ hits = hits0

\* C7 as stated: a request whose acquire, upsert or read-back failed is
\* answered with an internal server error
C7_FailureAnswered500 ==
  \A r \in Reqs : pc[r] = "panicked" => status[r] = 500

\* C8: once the store has executed a call's upsert, the stored count of the
\* key includes that +1 in every later state, whatever becomes of the call:
\* the count is the count at start plus the number of upserts executed.
C8_UpsertDurable ==
  \A k \in Targets :
    CountOf(hits, k) = CountOf(hits0, k) + Cardinality(UpsertsOn(k))

\* one call was aborted after its upsert, another failed at its read-back
C8_Witness ==
  \E r, q \in Reqs :
    /\ pc[r] = "aborted" /\ applied[r] = 1
    /\ pc[q] = "panicked" /\ err[q] = "select" /\ applied[q] = 1

\* C9: a call runs its upsert at most once.  A successful call has changed
\* the count of its key by exactly +1, a call that failed at acquire or at
\* the upsert by 0, and every step of a call changes the count of its key by
\* what that step added to the call's upserts, never more than 1 in total.
C9_UpsertOnce ==
  /\ [](\A r \in Reqs :
          /\ applied[r] <= 1
          /\ pc[r] = "done" => applied[r] = 1
          /\ (pc[r] = "panicked" /\ err[r] \in {"acquire", "upsert"})
               => applied[r] = 0)
  /\ [][\A r \in Reqs :
          pc'[r] # pc[r] =>
            CountOf(hits', url'[r]) - CountOf(hits, url'[r])
              = applied'[r] - applied[r]]_vars

\* a successful call, a call that failed at acquire and one whose upsert
\* was rejected
C9_Witness ==
  \E r, q, x \in Reqs :
    /\ pc[r] = "done" /\ applied[r] = 1
    /\ pc[q] = "panicked" /\ err[q] = "acquire"
    /\ pc[x] = "panicked" /\ err[x] = "upsert"

\* the requests that own a connection: past acquire, increase_hit_count
\* not yet returned
Holding == {r \in Reqs : pc[r] \in {"upsert", "select"}}

\* C10: the number of connections handed out never exceeds the pool's
\* capacity and equals the number of requests between their acquire and the
\* end of increase_hit_count; it is 0 when no request is in flight.
C10_ConnectionsReturned ==
  /\ borrowed <= capacity
  /\ borrowed = Cardinality(Holding)
  /\ (\A r \in Reqs : pc[r] = "idle" \/ Ended(r)) => borrowed = 0

\* a success, a read-back failure and an abort with a connection all ended
C10_Witness ==
  /\ \E r, q, x \in Reqs :
       /\ pc[r] = "done"
       /\ pc[q] = "panicked" /\ err[q] = "select"
       /\ pc[x] = "aborted" /\ applied[x] = 1
  /\ borrowed = 0

\* C11: the hits table holds at most one row per target and every row has a
\* count of at least 1; of the calls on one key at most one has its upsert
\* applied as the insert, the others update the row.
C11_OneRowPerTarget ==
  /\ \A k \in Targets : Cardinality(RowsOf(hits, k)) <= 1
  /\ \A i \in 1..Len(hits) : hits[i].count >= 1
  /\ \A r, q \in Reqs :
       (inserted[r] /\ inserted[q] /\ url[r] = url[q]) => r = q

\* two overlapping calls on an unseen key: one inserted the row with count 1,
\* the other updated it to 2
C11_Witness ==
  \E r, q \in Reqs :
    /\ r # q /\ url[r] = url[q] /\ ~HasRow(hits0, url[r])
    /\ pc[r] = "select" /\ pc[q] = "select"
    /\ inserted[r] /\ wrote[r] = 1
    /\ ~inserted[q] /\ wrote[q] = 2
    /\ Cardinality(RowsOf(hits, url[r])) = 1

\* C12: no step lowers the stored count of a key or removes its row.
C12_Monotone ==
  [][\A k \in Targets :
       /\ CountOf(hits', k) >= CountOf(hits, k)
       /\ HasRow(hits, k) => HasRow(hits', k)
       /\ Cardinality(RowsOf(hits', k)) >= Cardinality(RowsOf(hits, k))]_vars

\* a row created by one call has been raised by another, and a call on it
\* was aborted and another failed after that
C12_Witness ==
  \E k \in Targets :
    /\ ~HasRow(hits0, k) /\ CountOf(hits, k) >= 2
    /\ \E r, q \in Reqs : pc[r] = "aborted" /\ pc[q] = "panicked"
                           /\ url[r] = k /\ url[q] = k

\* C13: a failed request does not stop the service.  While requests have
\* failed the process is still serving, and a request that arrived after a
\* failed one, overlapped no other call on its key and succeeded returns the
\* correct count: the count at start plus the upserts executed on its key
\* before it, plus its own.
C13_ServiceSurvives ==
  /\ \A r \in Reqs : pc[r] = "panicked" => server = "serving"
  /\ \A q \in Reqs :
       ( /\ pc[q] = "done"
         /\ \E r \in pred[q] : pc[r] = "panicked"
         /\ \A x \in CallsOn(url[q]) : x # q => Ordered(q, x) )
       => ret[q] = CountOf(hits0, url[q]) + 1
                   + Cardinality({x \in pred[q] :
                                    url[x] = url[q] /\ applied[x] >= 1})

\* after a request failed at acquire and one failed at its read-back, a
\* third request on the same key succeeded
C13_Witness ==
  \E r, x, q \in Reqs :
    /\ pc[r] = "panicked" /\ err[r] = "acquire"
    /\ pc[x] = "panicked" /\ err[x] = "select"
    /\ r \in pred[q] /\ x \in pred[q]
    /\ url[x] = url[q]
    /\ pc[q] = "done" /\ status[q] = 200
    /\ ret[q] = CountOf(hits0, url[q]) + 2
    /\ server = "serving"

\* C14: the body of a successful response is the integer the same request's
\* read-back read from the table: the step that answers reads the count
\* stored for its key at that moment, writes its decimal digits and status
\* 200, and writes nothing to the table.
C14_BodyIsReadBack ==
  /\ [](\A r \in Reqs :
          pc[r] = "done" =>
            /\ status[r] = 200
            /\ Len(body[r]) > 0
            /\ ParseI64(body[r]) = ret[r])
  /\ [][\A r \in Reqs :
          (pc[r] = "select" /\ pc'[r] = "done") =>
            /\ ParseI64(body'[r]) = CountOf(hits, url[r])
            /\ hits' = hits]_vars

\* a response of two digits that is not the count the request's own upsert
\* wrote
C14_Witness ==
  \E r \in Reqs :
    /\ pc[r] = "done" /\ status[r] = 200
    /\ wrote[r] = 10 /\ ret[r] = 11 /\ body[r] = <<"1", "1">>

\* C15: the pool is connected before any request is handled.  A request is
\* past arrival only while the server is serving, no connection is handed
\* out before that, and once the connect failed the process never serves.
C15_PoolBeforeServing ==
  /\ [](\A r \in Reqs : pc[r] # "idle" => server = "serving")
  /\ [](server # "serving" => borrowed = 0 /\ hits = hits0)
  /\ [][server = "failed" => server' = "failed"]_vars

\* the connect failed: the process stopped with no request handled
C15_Witness ==
  /\ server = "failed"
  /\ \A r \in Reqs : pc[r] = "idle" /\ status[r] = 0

\* C16: a request on a help route (GET / or GET /hit) is answered with the
\* static help text in a step that hands out no connection and leaves the
\* hits table as it is; such a request never runs an upsert.
C16_HelpNoCore ==
  /\ [][\A r \in Reqs :
          (pc[r] # "helped" /\ pc'[r] = "helped") =>
            /\ hits' = hits
            /\ borrowed' = borrowed
            /\ body'[r] = <<HelpText>>
            /\ status'[r] = 200]_vars
  /\ [](\A r \in Reqs :
          route[r] \in {"/", "/hit"} =>
            /\ pc[r] = "helped"
            /\ applied[r] = 0 /\ ~inserted[r] /\ err[r] = "none")

\* both help routes answered while a hit request holds a connection after
\* its upsert
C16_Witness ==
  \E r, q, x \in Reqs :
    /\ pc[r] = "helped" /\ route[r] = "/" /\ body[r] = <<HelpText>>
    /\ pc[q] = "helped" /\ route[q] = "/hit" /\ body[q] = <<HelpText>>
    /\ pc[x] = "select" /\ x < r /\ x < q
    /\ borrowed = 1

\* C17: when the m calls that arrived for a key have all succeeded from a
\* start count c, every returned value lies in c+1 .. c+m, the call whose
\* upsert committed last (it wrote c+m) returned exactly c+m, and the largest
\* returned value is the stored count.
C17_ReturnRange ==
  \A k \in Targets :
    LET calls == CallsOn(k)
        c == CountOf(hits0, k)
        m == Cardinality(CallsOn(k))
    IN (calls # {} /\ \A r \in calls : pc[r] = "done") =>
         /\ \A r \in calls : ret[r] \in (c + 1)..(c + m)
         /\ \A r \in calls : wrote[r] = c + m => ret[r] = c + m
         /\ \E r \in calls : wrote[r] = c + m
         /\ \A r \in calls : ret[r] <= CountOf(hits, k)
         /\ CountOf(hits, k) = c + m

\* two overlapping successful calls returned the same value
C17_Witness ==
  \E r, q \in Reqs :
    /\ r # q /\ url[r] = url[q]
    /\ \A x \in CallsOn(url[r]) : pc[x] = "done"
    /\ pc[r] = "done" /\ pc[q] = "done"
    /\ ret[r] = ret[q] /\ wrote[r] # wrote[q]

\* C19: of two successful calls on the same key where the first had ended
\* when the second arrived, the second returns a strictly larger value,
\* whatever other calls on the key ran meanwhile.
C19_SequentialIncreasing ==
  \A r, q \in Reqs :
    ( /\ pc[r] = "done" /\ pc[q] = "done"
      /\ url[r] = url[q]
      /\ r \in pred[q] )
    => ret[r] < ret[q]

\* the second of two sequential calls returned 2 more than the first: a
\* third call on the key overlapped it
C19_Witness ==
  \E r, q, x \in Reqs :
    /\ pc[r] = "done" /\ pc[q] = "done" /\ r \in pred[q]
    /\ url[r] = url[q] /\ url[x] = url[q]
    /\ x # q /\ x # r /\ ~Ordered(x, q) /\ applied[x] = 1
    /\ ret[q] = ret[r] + 2

\* C18: no deadlock.  A request owns a connection only between its acquire
\* and the end of increase_hit_count, one at a time; with a backend that
\* answers and fair scheduling every request waiting in acquire gets a
\* connection and every request that arrived finishes with a response.
C18_NoDeadlock ==
  /\ [](Cardinality({r \in Reqs : pc[r] \in {"upsert", "select"}}) <= borrowed
        /\ borrowed <= capacity)
  /\ \A r \in Reqs : (pc[r] = "acquire") ~> (pc[r] = "upsert")
  /\ \A r \in Reqs : (pc[r] = "acquire") ~> (pc[r] = "done" /\ status[r] = 200)

\* a request waits in acquire while the other requests hold every connection
C18_Witness ==
  \E r \in Reqs :
    /\ pc[r] = "acquire"
    /\ borrowed = capacity
    /\ \E q \in Reqs : pc[q] = "select"
    /\ \E q \in Reqs : pc[q] = "done" /\ q > r

====
